---- MODULE Spec2Model ----
(***************************************************************************)
(* Model of src/minesweeper_agent.py: the Minesweeper board, the Sentence  *)
(* constraint, the MinesweeperAI knowledge base with its deduction loop,   *)
(* and the run_ai_game driver.                                             *)
(*                                                                         *)
(* Three specifications share the variables:                               *)
(*   Spec          run_ai_game on every board of Height x Width cells with *)
(*                 MinesCount mines, every outcome of the random choices;  *)
(*   SpecKB        a MinesweeperAI driven by arbitrary add_knowledge,      *)
(*                 mark_safe and mark_mine calls (counts need not be       *)
(*                 truthful);                                              *)
(*   SpecSentence  one Sentence under arbitrary mark_mine / mark_safe.     *)
(*                                                                         *)
(* add_knowledge is modelled in steps (the observation part, then one step *)
(* per pass of its `while changed` loop) because the loop need not         *)
(* terminate; pc is the position in the code.                              *)
(***************************************************************************)
EXTENDS Integers, Sequences, FiniteSets

\* ---------------------------------------------------------------- bounds
Height == 2
Width == 3
MinesCount == 2
\* Largest length of `knowledge` from which another pass is explored.
MaxKnowledge == 6
\* SpecKB: number of API calls explored, and largest count passed in.
MaxCalls == 3
MaxCount == 2

VARIABLES
    gmines,      \* Minesweeper.mines
    revealed,    \* Minesweeper.revealed
    moves_made,  \* MinesweeperAI.moves_made
    safes,       \* MinesweeperAI.safes
    mines,       \* MinesweeperAI.mines
    knowledge,   \* MinesweeperAI.knowledge: list of Sentence
    changed,     \* local `changed` of add_knowledge
    pc,          \* position in the code
    move,        \* run_ai_game: the last move and how it was chosen
    seen,        \* the Sentences (by value) that were in `knowledge` at the
                 \* start of some pass of the current add_knowledge call
    calls,       \* SpecKB: API calls made so far
    sentence     \* SpecSentence: the Sentence under test

vars == <<gmines, revealed, moves_made, safes, mines, knowledge, changed, pc,
          move, seen, calls, sentence>>

None == <<>>

Range(f) == {f[i] : i \in DOMAIN f}

\* ------------------------------------------------------------ Minesweeper
Cells == (0 .. Height - 1) \X (0 .. Width - 1)

Abs(x) == IF x < 0 THEN -x ELSE x

neighbors(pos) ==
    {n \in Cells : n # pos /\ Abs(n[1] - pos[1]) <= 1 /\ Abs(n[2] - pos[2]) <= 1}

nearby_mines(gm, pos) == Cardinality({n \in neighbors(pos) : n \in gm})

\* The value reveal returns: -1 signals a mine.  (Play adds the cell to
\* `revealed`.)
reveal(gm, pos) == IF pos \in gm THEN -1 ELSE nearby_mines(gm, pos)

won(gm, rev) == Cardinality(rev) = Cardinality(Cells) - Cardinality(gm)

\* --------------------------------------------------------------- Sentence
Sentence(cells, count) == [cells |-> cells, count |-> count]

\* known_mines with the comparison off by one.
known_mines_OffByOne(s) ==
    IF Cardinality(s.cells) = 0 THEN {}
    ELSE IF s.count = Cardinality(s.cells) + 1 THEN s.cells
    ELSE {}

known_mines(s) ==
    IF Cardinality(s.cells) = 0 THEN {}
    ELSE IF s.count = Cardinality(s.cells) THEN s.cells
    ELSE {}

\* known_safes testing the cell set instead of the count.
known_safes_EmptyTest(s) == IF Cardinality(s.cells) = 0 THEN s.cells ELSE {}

known_safes(s) == IF s.count = 0 THEN s.cells ELSE {}

\* Sentence.mark_mine that forgets to decrement the count.
Sentence_mark_mine_NoDecrement(s, pos) ==
    IF pos \in s.cells
    THEN [cells |-> s.cells \ {pos}, count |-> s.count]
    ELSE s

Sentence_mark_mine(s, pos) ==
    IF pos \in s.cells
    THEN [cells |-> s.cells \ {pos}, count |-> s.count - 1]
    ELSE s

Sentence_mark_safe(s, pos) ==
    IF pos \in s.cells
    THEN [cells |-> s.cells \ {pos}, count |-> s.count]
    ELSE s

is_empty(s) == Cardinality(s.cells) = 0

\* A reference to a Sentence object: id is the object's identity.
Ref(id, s) == [id |-> id, s |-> s]

\* `==` on Sentence objects.  The class defines no __eq__, so Python compares
\* identities.
SentenceEq(a, b) == a.id = b.id

\* `x in list` for a list of Sentence objects.
SentenceIn(a, refs) == \E r \in refs : SentenceEq(a, r)

\* ---------------------------------------------------------- MinesweeperAI
\* The fields of a MinesweeperAI as a record.
AI(mm, sf, mn, kn) ==
    [moves_made |-> mm, safes |-> sf, mines |-> mn, knowledge |-> kn]

AI_mark_mine(st, pos) ==
    [st EXCEPT !.mines = @ \cup {pos},
               !.knowledge = [i \in DOMAIN @ |-> Sentence_mark_mine(@[i], pos)]]

\* mark_safe that records the cell and leaves the sentences alone.
AI_mark_safe_NoSweep(st, pos) == [st EXCEPT !.safes = @ \cup {pos}]

AI_mark_safe(st, pos) ==
    [st EXCEPT !.safes = @ \cup {pos},
               !.knowledge = [i \in DOMAIN @ |-> Sentence_mark_safe(@[i], pos)]]

\* Observe that keeps the raw count (the known mines among the neighbors
\* are not subtracted).
Observe_RawCount(st, cell, count) ==
    LET st1 == AI_mark_safe([st EXCEPT !.moves_made = @ \cup {cell}], cell)
        unknowns == {n \in neighbors(cell) :
                        n \notin st1.safes /\ n \notin st1.mines
                        /\ n \notin st1.moves_made}
        new_sentence == Sentence(unknowns, count)
    IN  IF ~is_empty(new_sentence)
        THEN [st1 EXCEPT !.knowledge = Append(@, new_sentence)]
        ELSE st1

\* add_knowledge up to the loop: the observation step.
Observe(st, cell, count) ==
    LET st1 == AI_mark_safe([st EXCEPT !.moves_made = @ \cup {cell}], cell)
        unknowns == {n \in neighbors(cell) :
                        n \notin st1.safes /\ n \notin st1.mines
                        /\ n \notin st1.moves_made}
        known_mines_in_neighbors ==
            Cardinality({n \in neighbors(cell) : n \in st1.mines})
        new_sentence == Sentence(unknowns, count - known_mines_in_neighbors)
    IN  IF ~is_empty(new_sentence)
        THEN [st1 EXCEPT !.knowledge = Append(@, new_sentence)]
        ELSE st1

\* for s_pos in safes: if s_pos not in self.safes: self.mark_safe(s_pos)
RECURSIVE MarkSafes(_, _)
MarkSafes(st, S) ==
    IF S = {} THEN st
    ELSE LET p == CHOOSE p \in S : TRUE
         IN  MarkSafes(IF p \notin st.safes THEN AI_mark_safe(st, p) ELSE st,
                       S \ {p})

\* for m_pos in mines: if m_pos not in self.mines: self.mark_mine(m_pos)
RECURSIVE MarkMines(_, _)
MarkMines(st, S) ==
    IF S = {} THEN st
    ELSE LET p == CHOOSE p \in S : TRUE
         IN  MarkMines(IF p \notin st.mines THEN AI_mark_mine(st, p) ELSE st,
                       S \ {p})

CollectSafes(kn) == UNION {known_safes(kn[i]) : i \in DOMAIN kn}
CollectMines(kn) == UNION {known_mines(kn[i]) : i \in DOMAIN kn}

\* MarkPhase without the removal of the empty sentences.
MarkPhase_KeepEmpty(st) ==
    LET sf == CollectSafes(st.knowledge)
        mn == CollectMines(st.knowledge)
        st1 == MarkSafes(st, sf)
        st2 == MarkMines(st1, mn)
    IN  [st |-> st2,
         changed |-> (sf \ st.safes # {}) \/ (mn \ st1.mines # {})]

\* First half of a pass: collect, mark, drop the empty sentences.
\* Returns the AI and whether a cell was marked.
MarkPhase(st) ==
    LET sf == CollectSafes(st.knowledge)
        mn == CollectMines(st.knowledge)
        st1 == MarkSafes(st, sf)
        st2 == MarkMines(st1, mn)
    IN  [st |-> [st2 EXCEPT !.knowledge =
                        SelectSeq(@, LAMBDA s : ~is_empty(s))],
         changed |-> (sf \ st.safes # {}) \/ (mn \ st1.mines # {})]

\* SubsetPair without the issubset test.
SubsetPair_NoSubsetTest(s1, s2) == s1.cells # {} /\ s2.cells # {}

\* The test of the subset-inference loop on the pair (s1, s2).
SubsetPair(s1, s2) ==
    s1.cells # {} /\ s2.cells # {} /\ s1.cells \subseteq s2.cells

\* Inferred without the subtraction of the counts.
Inferred_KeepCount(s1, s2) == Sentence(s2.cells \ s1.cells, s2.count)

\* Inferred with the counts subtracted the wrong way round.
Inferred_Reversed(s1, s2) == Sentence(s2.cells \ s1.cells, s1.count - s2.count)

Inferred(s1, s2) == Sentence(s2.cells \ s1.cells, s2.count - s1.count)

\* Second half of a pass: the nested loops over (s1, s2), s1 outermost.  p
\* counts the pairs visited; acc is new_inferred.  An inferred Sentence is a
\* fresh object; its identity is the index it would get in `knowledge`.
RECURSIVE InferFrom(_, _, _)
InferFrom(kn, p, acc) ==
    LET n == Len(kn) IN
    IF p >= n * n THEN acc
    ELSE LET i == (p \div n) + 1
             j == (p % n) + 1
             inferred == Ref(n + Len(acc) + 1, Inferred(kn[i], kn[j]))
             add == /\ ~SentenceEq(Ref(i, kn[i]), Ref(j, kn[j]))
                    /\ SubsetPair(kn[i], kn[j])
                    /\ ~is_empty(inferred.s)
                    /\ ~SentenceIn(inferred, {Ref(k, kn[k]) : k \in 1 .. n})
                    /\ ~SentenceIn(inferred,
                                   {Ref(n + k, acc[k]) : k \in 1 .. Len(acc)})
         IN  InferFrom(kn, p + 1, IF add THEN Append(acc, inferred.s) ELSE acc)

new_inferred(kn) == InferFrom(kn, 0, <<>>)

\* LoopBody that does not set `changed` when sentences were inferred.
LoopBody_NoInferFlag(st) ==
    LET m == MarkPhase(st)
        inf == new_inferred(m.st.knowledge)
    IN  [st |-> [m.st EXCEPT !.knowledge = @ \o inf],
         changed |-> m.changed]

\* One pass of the `while changed` loop.
LoopBody(st) ==
    LET m == MarkPhase(st)
        inf == new_inferred(m.st.knowledge)
    IN  [st |-> [m.st EXCEPT !.knowledge = @ \o inf],
         changed |-> m.changed \/ inf # <<>>]

\* make_safe_move that does not skip the moves made.
make_safe_move_Replay(st) == IF st.safes = {} THEN {None} ELSE st.safes

\* make_safe_move that never finds a safe cell.
make_safe_move_Never(st) == {None}

make_safe_move(st) ==
    IF st.safes \ st.moves_made = {} THEN {None} ELSE st.safes \ st.moves_made

\* make_random_move that skips the known mines only.
make_random_move_Replay(st) ==
    LET choices == {pos \in Cells : pos \notin st.mines}
    IN  IF choices = {} THEN {None} ELSE choices

\* make_random_move that skips the moves made only.
make_random_move_IntoMines(st) ==
    LET choices == {pos \in Cells : pos \notin st.moves_made}
    IN  IF choices = {} THEN {None} ELSE choices

make_random_move(st) ==
    LET choices == {pos \in Cells :
                       pos \notin st.moves_made /\ pos \notin st.mines}
    IN  IF choices = {} THEN {None} ELSE choices

\* ------------------------------------------------------------- the state
Self == AI(moves_made, safes, mines, knowledge)

SetSelf(st) ==
    /\ moves_made' = st.moves_made
    /\ safes' = st.safes
    /\ mines' = st.mines
    /\ knowledge' = st.knowledge

NoSentence == Sentence({}, 0)

InitAI ==
    /\ moves_made = {}
    /\ safes = {}
    /\ mines = {}
    /\ knowledge = <<>>
    /\ changed = FALSE
    /\ pc = "play"
    /\ move = None
    /\ seen = {}

\* ------------------------------------------------------------ run_ai_game
Init ==
    /\ gmines \in {m \in SUBSET Cells : Cardinality(m) = MinesCount}
    /\ revealed = {}
    /\ InitAI
    /\ calls = 0
    /\ sentence = NoSentence

\* One turn of the game loop up to the `while changed` of add_knowledge (or
\* to the break).
Play(m, how) ==
    /\ move' = <<m, how>>
    /\ seen' = {}
    /\ revealed' = revealed \cup {m}
    /\ IF reveal(gmines, m) = -1
       THEN /\ SetSelf(AI_mark_mine(Self, m))
            /\ pc' = "over"
            /\ changed' = changed
       ELSE /\ SetSelf(Observe(Self, m, reveal(gmines, m)))
            /\ pc' = "loop"
            /\ changed' = TRUE

Move ==
    /\ pc = "play"
    /\ UNCHANGED <<gmines, calls, sentence>>
    /\ IF make_safe_move(Self) # {None}
       THEN \E m \in make_safe_move(Self) : Play(m, "safe")
       ELSE IF make_random_move(Self) # {None}
       THEN \E m \in make_random_move(Self) : Play(m, "random")
       ELSE /\ pc' = "over"
            /\ UNCHANGED <<revealed, moves_made, safes, mines, knowledge,
                           changed, move, seen>>

\* One pass of the loop of add_knowledge.
Pass ==
    /\ pc = "loop"
    /\ changed
    /\ Len(knowledge) <= MaxKnowledge
    /\ SetSelf(LoopBody(Self).st)
    /\ changed' = LoopBody(Self).changed
    /\ seen' = seen \cup Range(knowledge)
    /\ UNCHANGED <<gmines, revealed, pc, move, calls, sentence>>

\* `while changed` finds changed false: add_knowledge returns.
Return ==
    /\ pc = "loop"
    /\ ~changed
    /\ pc' = "returned"
    /\ UNCHANGED <<gmines, revealed, moves_made, safes, mines, knowledge,
                   changed, move, seen, calls, sentence>>

\* if game.won(): break.  Otherwise back to the top of the game loop, where
\* `move` is dead until it is assigned again.
CheckWon ==
    /\ pc = "returned"
    /\ IF won(gmines, revealed)
       THEN pc' = "over" /\ move' = move
       ELSE pc' = "play" /\ move' = None
    /\ seen' = {}
    /\ UNCHANGED <<gmines, revealed, moves_made, safes, mines, knowledge,
                   changed, calls, sentence>>

Next == Move \/ Pass \/ Return \/ CheckWon

Spec == Init /\ [][Next]_vars

\* ------------------------------------------------- arbitrary calls (SpecKB)
InitKB ==
    /\ gmines = {}
    /\ revealed = {}
    /\ InitAI
    /\ calls = 0
    /\ sentence = NoSentence

KBCall(st) ==
    /\ pc = "play"
    /\ calls < MaxCalls
    /\ calls' = calls + 1
    /\ SetSelf(st)
    /\ seen' = {}
    /\ UNCHANGED <<gmines, revealed, move, sentence>>

\* ai.add_knowledge(cell, count, game) up to its loop.
KBAddKnowledge ==
    \E cell \in Cells, count \in 0 .. MaxCount :
        /\ KBCall(Observe(Self, cell, count))
        /\ pc' = "loop"
        /\ changed' = TRUE

\* ai.mark_safe(pos)
KBMarkSafe ==
    \E pos \in Cells :
        /\ KBCall(AI_mark_safe(Self, pos))
        /\ UNCHANGED <<pc, changed>>

\* ai.mark_mine(pos)
KBMarkMine ==
    \E pos \in Cells :
        /\ KBCall(AI_mark_mine(Self, pos))
        /\ UNCHANGED <<pc, changed>>

\* Back at the caller after add_knowledge returned.
KBResume ==
    /\ pc = "returned"
    /\ pc' = "play"
    /\ seen' = {}
    /\ UNCHANGED <<gmines, revealed, moves_made, safes, mines, knowledge,
                   changed, move, calls, sentence>>

NextKB == KBAddKnowledge \/ KBMarkSafe \/ KBMarkMine \/ Pass \/ Return \/ KBResume

SpecKB == InitKB /\ [][NextKB]_vars

\* --------------------------------------------- one Sentence (SpecSentence)
WellFormed(s) == 0 <= s.count /\ s.count <= Cardinality(s.cells)

InitSentence ==
    /\ sentence \in {Sentence(c, k) : c \in SUBSET Cells,
                                       k \in 0 .. Cardinality(Cells)}
    /\ WellFormed(sentence)
    /\ gmines = {}
    /\ revealed = {}
    /\ InitAI
    /\ calls = 0

SentenceMarkMine ==
    \E pos \in Cells :
        /\ sentence' = Sentence_mark_mine(sentence, pos)
        /\ move' = <<pos, "mark_mine">>
        /\ UNCHANGED <<gmines, revealed, moves_made, safes, mines, knowledge,
                       changed, pc, seen, calls>>

SentenceMarkSafe ==
    \E pos \in Cells :
        /\ sentence' = Sentence_mark_safe(sentence, pos)
        /\ move' = <<pos, "mark_safe">>
        /\ UNCHANGED <<gmines, revealed, moves_made, safes, mines, knowledge,
                       changed, pc, seen, calls>>

NextSentence == SentenceMarkMine \/ SentenceMarkSafe

SpecSentence == InitSentence /\ [][NextSentence]_vars

\* ================================================================ claims
Returned == pc = "returned"

\* The states from which Pass runs; Pass is the only action enabled in them.
InPass == pc = "loop" /\ changed /\ Len(knowledge) <= MaxKnowledge

\* C1 (as claimed): the loop of add_knowledge terminates because every pass
\* that reports a change has made progress: it marked a cell safe or mined,
\* or it added a constraint whose value (cells, count) was not in `knowledge`
\* before.  A pass that reports a change without any of these leaves the next
\* pass the same work to do, for ever, and `knowledge` grows at every pass.
C1_ChangedPassMakesProgress ==
    [][(InPass /\ changed')
        => \/ safes' # safes
           \/ mines' # mines
           \/ ~(Range(knowledge') \subseteq Range(knowledge))]_vars

\* C2 (as claimed): a Sentence that starts with 0 <= count <= |cells| keeps
\* 0 <= count <= |cells| after every mark_mine / mark_safe.
C2_CountWithinCells == WellFormed(sentence)

\* C3: subset inference.  In every state from which a pass runs, for every
\* two distinct constraints A, B left after the marking of that pass with
\* A.cells a strict subset of B.cells, the constraint
\* (B.cells \ A.cells, B.count - A.count) is in `knowledge` at the end of the
\* pass; and when add_knowledge returns, for A and B that were in
\* `knowledge` during the call with the difference of the counts equal to the
\* number of cells of B.cells \ A.cells (A = ({a,b},1), B = ({a,b,c},2)),
\* those cells are in `mines`.
C3_Derives ==
    InPass =>
        LET kn == MarkPhase(Self).st.knowledge
            after == LoopBody(Self).st.knowledge
        IN  \A i, j \in DOMAIN kn :
                (i # j /\ kn[i].cells # {} /\ kn[i].cells \subseteq kn[j].cells
                       /\ kn[i].cells # kn[j].cells)
                => \E k \in DOMAIN after :
                       /\ after[k].cells = kn[j].cells \ kn[i].cells
                       /\ after[k].count = kn[j].count - kn[i].count

C3_InstanceMined ==
    Returned =>
        \A A, B \in seen :
            (/\ A.cells # {}
             /\ A.cells \subseteq B.cells
             /\ A.cells # B.cells
             /\ B.count - A.count = Cardinality(B.cells \ A.cells))
            => (B.cells \ A.cells) \subseteq mines

C3_SubsetInference == C3_Derives /\ C3_InstanceMined

\* C3 witness: add_knowledge has returned from a call during which
\* A = ({a,b},1) and B = ({a,b,c},2) were in `knowledge`, and c is in `mines`.
C3_Witness ==
    /\ Returned
    /\ \E A, B \in seen :
          /\ Cardinality(A.cells) = 2 /\ A.count = 1
          /\ Cardinality(B.cells) = 3 /\ B.count = 2
          /\ A.cells \subseteq B.cells
          /\ (B.cells \ A.cells) \subseteq mines

\* C4: in every state of an AI game, ai.safes and ai.mines are disjoint.
C4_SafesMinesDisjoint == safes \cap mines = {}

\* C4 witness: the game ended on a mine hit, the hit cell was marked, and the
\* deduction had found safe cells and mines before.
C4_Witness ==
    /\ pc = "over"
    /\ move # None
    /\ move[1] \in gmines
    /\ move[1] \in mines
    /\ Cardinality(mines) >= 2
    /\ Cardinality(safes) >= 2

\* C5: when add_knowledge returns, no cell of a constraint of `knowledge` is
\* in `safes` or in `mines`.
C5_NoResolvedCellInKnowledge ==
    Returned =>
        \A i \in DOMAIN knowledge :
            knowledge[i].cells \cap (safes \cup mines) = {}

\* C5 witness: add_knowledge returned with constraints left and with cells
\* known safe and known mined.
C5_Witness ==
    /\ Returned
    /\ knowledge # <<>>
    /\ Cardinality(safes) >= 2
    /\ mines # {}

\* C6 (as claimed): when add_knowledge returns, no two constraints of
\* `knowledge` have the same cell set and the same count.
C6_NoDuplicateConstraints ==
    Returned =>
        \A i, j \in DOMAIN knowledge : i # j => knowledge[i] # knowledge[j]

\* C7: when add_knowledge returns, no constraint of `knowledge` has an empty
\* cell set.
C7_NoEmptyConstraint ==
    Returned => \A i \in DOMAIN knowledge : knowledge[i].cells # {}

\* C7 witness: add_knowledge returned from a call in which a constraint was
\* emptied (all its cells got resolved) while other constraints remain.
C7_Witness ==
    /\ Returned
    /\ knowledge # <<>>
    /\ \E s \in seen : s.cells # {} /\ s.cells \subseteq (safes \cup mines)

\* C8: a constraint with count 0 at the start of a pass has all its cells in
\* `safes` at the end of that pass (seen holds the constraints that were in
\* `knowledge` at the start of the passes run so far).
C8_ZeroCountResolved ==
    \A s \in seen : s.count = 0 => s.cells \subseteq safes

\* C8 witness: a pass has run on a constraint ({a,b,c}, 0).
C8_Witness ==
    /\ pc = "loop"
    /\ \E s \in seen : s.count = 0 /\ Cardinality(s.cells) = 3

\* C9: when add_knowledge returns, every cell of a non-empty constraint that
\* had count = |cells| at the start of a pass of the call is in `mines`.
C9_FullCountResolved ==
    Returned =>
        \A s \in seen :
            (s.cells # {} /\ s.count = Cardinality(s.cells))
            => s.cells \subseteq mines

\* C9 witness: add_knowledge returned from a call that had ({a,b}, 2).
C9_Witness ==
    /\ Returned
    /\ \E s \in seen : s.count = 2 /\ Cardinality(s.cells) = 2

\* C10: in the state in which add_knowledge has returned, one more run of the
\* loop body adds nothing to `safes`, to `mines` or to `knowledge`.
C10_Idempotent ==
    Returned =>
        LET r == LoopBody(Self) IN
        /\ r.st.safes = safes
        /\ r.st.mines = mines
        /\ r.st.knowledge = knowledge
        /\ ~r.changed

\* C10 witness: add_knowledge returned after a call that ran several passes
\* and left constraints behind.
C10_Witness ==
    /\ Returned
    /\ Len(knowledge) >= 2
    /\ \E s \in seen : s \notin Range(knowledge)

\* A step of the game loop that reveals a cell: `move` is assigned.
Reveals == pc = "play" /\ move' # None

\* C11: make_safe_move returns a cell of `safes` that is not in `moves_made`,
\* returns None exactly when safes \ moves_made is empty, and in every state
\* of an AI game the cell it returns is not in `mines`.
C11_SafeMove ==
    \A r \in make_safe_move(Self) :
        /\ (r = None) <=> (safes \ moves_made = {})
        /\ r # None => (r \in safes /\ r \notin moves_made /\ r \notin mines)

\* C11 witness: a safe move has just been played while mines were known and
\* another safe cell is still unplayed.
C11_Witness ==
    /\ pc = "loop"
    /\ move # None
    /\ move[2] = "safe"
    /\ mines # {}
    /\ safes \ moves_made # {}

\* C12: make_random_move returns a cell of the board that is neither in
\* `moves_made` nor in `mines`, and returns None exactly when every cell of
\* the board is in moves_made \cup mines.
C12_RandomMove ==
    \A r \in make_random_move(Self) :
        /\ (r = None) <=> (Cells \subseteq (moves_made \cup mines))
        /\ r # None => (r \in Cells /\ r \notin moves_made /\ r \notin mines)

\* C12 witness: the last move was a random one and every cell of the board
\* is now played or known mined, so that make_random_move returns None.
C12_Witness ==
    /\ move # None
    /\ move[2] = "random"
    /\ mines # {}
    /\ Cells \subseteq (moves_made \cup mines)

\* C13: a random cell is revealed only when safes \ moves_made is empty; when
\* a known-safe unplayed cell exists the next revealed cell is one of them;
\* after a reveal that hits a mine the cell is in ai.mines and no further cell
\* is revealed.
C13_MovePolicy ==
    [][/\ Reveals => /\ move'[2] = "random" => safes \ moves_made = {}
                     /\ safes \ moves_made # {}
                            => move'[1] \in safes \ moves_made
                     /\ move'[1] \in gmines
                            => (move'[1] \in mines' /\ pc' = "over")
       /\ pc = "over" => (revealed' = revealed /\ pc' = "over")]_vars

\* C13 witness: the game ended on a mine hit after at least three reveals,
\* with constraints still in `knowledge`.
C13_Witness ==
    /\ pc = "over"
    /\ move # None
    /\ move[1] \in gmines
    /\ move[1] \in mines
    /\ Cardinality(revealed) >= 3
    /\ knowledge # <<>>

\* C14 (as claimed): no reachable state of the knowledge base holds a
\* constraint with count < 0 or count > |cells|; a mutation that would make
\* one ends in an error instead.  (The code has no error outcome: every state
\* of the model is a non-error state.)
C14_NoSilentViolation ==
    \A i \in DOMAIN knowledge : WellFormed(knowledge[i])

\* The step of the game loop that runs add_knowledge up to its loop.
Observes == pc = "play" /\ pc' = "loop"

\* C15: the observation step of add_knowledge(cell, count, game).  Before the
\* loop runs, cell is in `moves_made` and in `safes` and in no constraint; the
\* constraints already there are otherwise unchanged; the constraint appended
\* has cells = neighbors(cell) \ (safes \cup mines \cup moves_made) and
\* count = count - |neighbors(cell) \cap mines|; nothing is appended when
\* that cell set is empty.
C15_ObservationStep ==
    [][Observes =>
        LET cell == move'[1]
            count == nearby_mines(gmines, cell)
            unknowns == neighbors(cell) \ (safes' \cup mines' \cup moves_made')
            swept == [i \in DOMAIN knowledge |->
                        [cells |-> knowledge[i].cells \ {cell},
                         count |-> knowledge[i].count]]
            appended == [cells |-> unknowns,
                         count |-> count
                                   - Cardinality(neighbors(cell) \cap mines)]
        IN  /\ moves_made' = moves_made \cup {cell}
            /\ safes' = safes \cup {cell}
            /\ mines' = mines
            /\ knowledge' = IF unknowns = {} THEN swept
                            ELSE Append(swept, appended)]_vars

\* C15 witness: an observation has just been made of a cell that was in a
\* constraint and has a known mine among its neighbors, and a constraint was
\* appended.
C15_Witness ==
    /\ pc = "loop"
    /\ changed
    /\ seen = {}
    /\ Len(knowledge) >= 2
    /\ neighbors(move[1]) \cap mines # {}
    /\ knowledge[Len(knowledge)].cells
          = neighbors(move[1]) \ (safes \cup mines \cup moves_made)

\* C16: soundness against the real board.  In every state of an AI game every
\* cell of ai.mines is a mine, no cell of ai.safes is a mine, every constraint
\* has count = the number of mines among its cells, and a move that hit a mine
\* was a random one.
C16_Sound ==
    /\ mines \subseteq gmines
    /\ safes \cap gmines = {}
    /\ \A i \in DOMAIN knowledge :
          knowledge[i].count = Cardinality(knowledge[i].cells \cap gmines)
    /\ (move # None /\ move[1] \in gmines) => move[2] = "random"

\* C16 witness: add_knowledge has returned with a mine deduced and with a
\* constraint left that still holds a mine.
C16_Witness ==
    /\ Returned
    /\ mines # {}
    /\ \E i \in DOMAIN knowledge : knowledge[i].count >= 1

\* C17 (as claimed): the game is reported won only if every non-mine cell has
\* been revealed and no mine has been revealed.
C17_WonOnlyWithoutHit ==
    (pc = "over" /\ won(gmines, revealed))
        => (revealed \cap gmines = {} /\ (Cells \ gmines) \subseteq revealed)

\* The cells the game loop can choose as its next move (line 220-224): the
\* safe move when there is one, a random one otherwise.
NextMoves ==
    IF make_safe_move(Self) # {None} THEN make_safe_move(Self)
    ELSE make_random_move(Self) \ {None}

\* C18: no cell is revealed twice.  Every move the game loop can choose is
\* outside ai.moves_made, outside ai.mines and not yet revealed, and the cells
\* revealed so far are the moves made plus the mine that was hit, so every
\* reveal adds a cell to `revealed` and there are at most Height * Width of
\* them.
C18_NoCellRevealedTwice ==
    /\ pc = "play" =>
          \A m \in NextMoves :
              m \notin moves_made /\ m \notin mines /\ m \notin revealed
    /\ revealed = moves_made \cup (revealed \cap gmines)
    /\ Cardinality(revealed \cap gmines) <= 1
    /\ revealed \cap gmines # {} => pc = "over"

\* C18 witness: the game loop is about to choose a move while a mine is known
\* and cells have been played.
C18_Witness ==
    /\ pc = "play"
    /\ moves_made # {}
    /\ mines # {}
    /\ NextMoves # {}

\* C19: in every state of an AI game, the states between the marking of the
\* safes, the marking of the mines and the inference of a pass included, every
\* constraint of ai.knowledge has 0 <= count <= |cells|.
C19_GameCountsWithinCells ==
    /\ \A i \in DOMAIN knowledge : WellFormed(knowledge[i])
    /\ InPass =>
          LET afterSafes == MarkSafes(Self, CollectSafes(knowledge)).knowledge
              afterMarks == MarkPhase(Self).st.knowledge
              inferred == new_inferred(afterMarks)
          IN  /\ \A i \in DOMAIN afterSafes : WellFormed(afterSafes[i])
              /\ \A i \in DOMAIN afterMarks : WellFormed(afterMarks[i])
              /\ \A i \in DOMAIN inferred : WellFormed(inferred[i])

\* C19 witness: a pass is about to run that infers a constraint with a mine
\* in it from two constraints of `knowledge`.
C19_Witness ==
    /\ InPass
    /\ \E s \in Range(new_inferred(MarkPhase(Self).st.knowledge)) :
          s.count >= 1

====
